---- MODULE Spec2Model ----
(***************************************************************************)
(* Model of main.go: the CSV-to-table transform CsvToSlice, the retrying   *)
(* remote-call client AIModelConnector.ConnectAIModel, and the interactive *)
(* loop of main that drives them.                                          *)
(*                                                                         *)
(* Durations are counted in tenths of a second (20.7 s is 207).  Strings   *)
(* that the program inspects character by character (the CSV text, the     *)
(* lines read from standard input) are sequences of one-character strings. *)
(***************************************************************************)
EXTENDS Integers, Sequences, FiniteSets, TLC

(***************************************************************************)
(* Bounds of the model.                                                    *)
(***************************************************************************)
MaxLines == 2      \* lines available on standard input
MaxCalls == 2      \* ConnectAIModel calls followed in one session
MaxBusy == 2       \* 503 "loading" answers the endpoint gives before its final answer
MaxCsvLen == 5     \* characters of CSV text enumerated exhaustively

(***************************************************************************)
(* Program constants.                                                      *)
(***************************************************************************)
maxRetries == 10
StatusOK == 200
StatusServiceUnavailable == 503
TenthsPerSecond == 10      \* time.Second, in the model's unit of 0.1 s
FieldsPerRecord == 0       \* csv.NewReader leaves Reader.FieldsPerRecord at 0

(***************************************************************************)
(* JSON values as far as the client looks at them.  A member of an object  *)
(* is a record [t, ...] whose tag t is the JSON type found under the key   *)
(* ("absent" when the key is missing).                                     *)
(***************************************************************************)
Absent == "absent"

\* One member of a JSON object: the JSON type found under the key and, when it
\* is the type the client expects there, its value.
M(t, v) == [t |-> t, v |-> v]
NoStr == M(Absent, "")
NoList == M(Absent, <<>>)
NoNum == M(Absent, 0)

\* A body: its top-level JSON class ("object", "null", "array", "invalid" for
\* text that is no JSON, "empty" for no bytes) and the members of interest.
Obj(answer, coordinates, cells, aggregator, estimated_time, error) ==
    [json |-> "object", answer |-> answer, coordinates |-> coordinates,
     cells |-> cells, aggregator |-> aggregator,
     estimated_time |-> estimated_time, error |-> error]

NonObj(json) == [Obj(NoStr, NoList, NoList, NoStr, NoNum, NoStr) EXCEPT !.json = json]

\* What reading an already consumed body yields.
EmptyBody == NonObj("empty")

GoodAnswer == Obj(M("str", "42"), M("list", <<<<0, 1>>>>), M("list", <<"42">>),
                    M("str", "NONE"), NoNum, NoStr)
AnswerOnly == Obj(M("str", "7"), NoList, NoList, NoStr, NoNum, NoStr)
AnswerNumber == Obj(M("num", ""), M("list", <<<<0, 1>>>>), M("list", <<"42">>),
                    M("str", "NONE"), NoNum, NoStr)
NullBody == NonObj("null")
ArrayBody == NonObj("array")
HtmlBody == NonObj("invalid")
Loading(t) == Obj(NoStr, NoList, NoList, NoStr, M("num", t), M("str", "loading"))
LoadingStr == Obj(NoStr, NoList, NoList, NoStr, M("str", 0), M("str", "loading"))
ErrorOnly == Obj(NoStr, NoList, NoList, NoStr, NoNum, M("str", "denied"))

\* estimated_time values the endpoint reports, in tenths of a second:
\* 0.5 s, 2.0 s and 20.7 s.
EstTimes == {5, 20, 207}

(***************************************************************************)
(* encoding/csv as CsvToSlice uses it: csv.NewReader(...).ReadAll() with   *)
(* the default settings (Comma ',', no Comment, LazyQuotes off,            *)
(* TrimLeadingSpace off, FieldsPerRecord 0).                               *)
(***************************************************************************)
Comma == ","
Quote == "\""
NL == "\n"

RECURSIVE IndexFrom(_, _, _)
IndexFrom(s, c, k) ==
    IF k > Len(s) THEN 0
    ELSE IF s[k] = c THEN k
    ELSE IndexFrom(s, c, k + 1)

\* bytes.IndexByte, 1-based; 0 when c does not occur in s.
IndexOf(s, c) == IndexFrom(s, c, 1)

Drop(s, n) == SubSeq(s, n + 1, Len(s))

\* Reader.readLine: the text up to and including the next newline.
ReadLineOf(text) ==
    LET nl == IndexOf(text, NL)
    IN  IF nl = 0 THEN [line |-> text, rest |-> <<>>]
        ELSE [line |-> SubSeq(text, 1, nl), rest |-> Drop(text, nl)]

lengthNL(line) == IF Len(line) > 0 /\ line[Len(line)] = NL THEN 1 ELSE 0

RecordError(e) == [err |-> e, fields |-> <<>>, rest |-> <<>>]

\* The parseField loop of Reader.readRecord: line is the unread part of the
\* current line, rest the text after it, fields the fields parsed so far.
RECURSIVE parseField(_, _, _), quotedField(_, _, _, _)
parseField(line, rest, fields) ==
    IF Len(line) = 0 \/ line[1] # Quote
    THEN \* non-quoted field
         LET i == IndexOf(line, Comma)
             field == IF i > 0 THEN SubSeq(line, 1, i - 1)
                      ELSE SubSeq(line, 1, Len(line) - lengthNL(line))
         IN  IF IndexOf(field, Quote) > 0 THEN RecordError("ErrBareQuote")
             ELSE IF i > 0 THEN parseField(Drop(line, i), rest, Append(fields, field))
             ELSE [err |-> "", fields |-> Append(fields, field), rest |-> rest]
    ELSE quotedField(Drop(line, 1), rest, fields, <<>>)

quotedField(line, rest, fields, buf) ==
    LET i == IndexOf(line, Quote)
    IN  IF i > 0
        THEN LET got == buf \o SubSeq(line, 1, i - 1)
                 after == Drop(line, i)
             IN  IF Len(after) > 0 /\ after[1] = Quote
                 THEN quotedField(Drop(after, 1), rest, fields, Append(got, Quote))
                 ELSE IF Len(after) > 0 /\ after[1] = Comma
                 THEN parseField(Drop(after, 1), rest, Append(fields, got))
                 ELSE IF lengthNL(after) = Len(after)
                 THEN [err |-> "", fields |-> Append(fields, got), rest |-> rest]
                 ELSE RecordError("ErrQuote")
        ELSE IF Len(line) > 0
        THEN \* the quoted field goes on in the next line
             quotedField(ReadLineOf(rest).line, ReadLineOf(rest).rest, fields, buf \o line)
        ELSE \* end of input inside a quoted field
             RecordError("ErrQuote")

\* Reader.ReadAll: readRecord until end of input; empty lines are skipped and
\* the first record fixes the field count of all later ones.
RECURSIVE readAll(_, _, _)
readAll(text, records, fieldsPerRecord) ==
    IF Len(text) = 0 THEN [err |-> "", records |-> records]
    ELSE LET rl == ReadLineOf(text)
         IN  IF rl.line = <<NL>> THEN readAll(rl.rest, records, fieldsPerRecord)
             ELSE LET r == parseField(rl.line, rl.rest, <<>>)
                  IN  IF r.err # "" THEN [err |-> r.err, records |-> <<>>]
                      ELSE IF fieldsPerRecord > 0 /\ Len(r.fields) # fieldsPerRecord
                      THEN [err |-> "ErrFieldCount", records |-> <<>>]
                      ELSE readAll(r.rest, Append(records, r.fields), Len(r.fields))

ReadAll(text) == readAll(text, <<>>, FieldsPerRecord)

(***************************************************************************)
(* CsvToSlice.  A table is a function from column names to columns; the    *)
(* nil map returned with an error is the function with the empty domain.   *)
(***************************************************************************)
NoTable == <<>>

\* The inner loop: the i-th field of every data row that has one.
RECURSIVE Column(_, _, _)
Column(rows, i, acc) ==
    IF Len(rows) = 0 THEN acc
    ELSE Column(Tail(rows), i,
                IF i <= Len(Head(rows)) THEN Append(acc, Head(rows)[i]) ELSE acc)

\* A map write that leaves an entry already present as it is.
MapSetKeepFirst(m, k, v) ==
    [x \in (DOMAIN m) \cup {k} |-> IF x \in DOMAIN m THEN m[x] ELSE v]

\* result[col] = ... : a write to a Go map, replacing any earlier entry.
MapSet(m, k, v) == [x \in (DOMAIN m) \cup {k} |-> IF x = k THEN v ELSE m[x]]

\* The outer loop over the header, positions i..Len(header).
RECURSIVE FillColumns(_, _, _, _)
FillColumns(header, rows, i, result) ==
    IF i > Len(header) THEN result
    ELSE FillColumns(header, rows, i + 1,
                     MapSet(result, header[i], Column(rows, i, <<>>)))

\* CsvToSlice without the test for zero records.
CsvToSliceNoEmptyCheck(data) ==
    LET ra == ReadAll(data)
    IN  IF ra.err # "" THEN [table |-> NoTable, err |-> ra.err]
        ELSE IF Len(ra.records) < 1 THEN [table |-> NoTable, err |-> ""]
        ELSE [table |-> FillColumns(Head(ra.records), Tail(ra.records), 1, NoTable),
              err |-> ""]

CsvToSlice(data) ==
    LET ra == ReadAll(data)
    IN  IF ra.err # "" THEN [table |-> NoTable, err |-> ra.err]
        ELSE IF Len(ra.records) < 1 THEN [table |-> NoTable, err |-> "no data found"]
        ELSE [table |-> FillColumns(Head(ra.records), Tail(ra.records), 1, NoTable),
              err |-> ""]

(***************************************************************************)
(* The remote endpoint and the transport.                                  *)
(***************************************************************************)
Resp(status, body) == [fail |-> FALSE, status |-> status, body |-> body]

\* Client.Do returning an error and no response.
NetFail == [fail |-> TRUE, status |-> 0, body |-> EmptyBody]

Busy(t) == Resp(StatusServiceUnavailable, Loading(t))

FinalAnswers ==
    {Resp(StatusOK, b) : b \in {GoodAnswer, AnswerOnly, AnswerNumber, NullBody, HtmlBody}}
    \cup {Resp(StatusServiceUnavailable, b) : b \in {LoadingStr, ErrorOnly, HtmlBody, NullBody}}
    \cup {Resp(403, ErrorOnly), Resp(500, HtmlBody)}
    \cup {Busy(t) : t \in EstTimes}
    \cup {NetFail}

\* The endpoint's behaviours: `busy` answers of 503 with some estimated_time,
\* then the answer `then` to every later request.
Plans == [busy : 0..MaxBusy, then : FinalAnswers]

\* The answers the endpoint may give to the k-th request it receives.
ServerAnswers(p, k) ==
    IF k <= p.busy THEN {Busy(t) : t \in EstTimes} ELSE {p.then}

(***************************************************************************)
(* ConnectAIModel: values.                                                 *)
(***************************************************************************)
URL == "https://api-inference.huggingface.co/models/google/tapas-base-finetuned-wtq"

ZeroResponse == [Answer |-> "", Coordinates |-> <<>>, Cells |-> <<>>, Aggregator |-> ""]

NoError == [kind |-> "none", status |-> 0, body |-> EmptyBody]
TransportError == [kind |-> "transport", status |-> 0, body |-> EmptyBody]
DecodeError == [kind |-> "decode", status |-> 0, body |-> EmptyBody]
MaxRetriesError == [kind |-> "maxretries", status |-> 0, body |-> EmptyBody]
StatusError(status, body) == [kind |-> "status", status |-> status, body |-> body]

\* json.Marshal(payload): the members of Inputs in declaration order.
Marshal(payload) ==
    << [key |-> "table", val |-> payload.Table],
       [key |-> "query", val |-> payload.Query] >>

\* http.NewRequest("POST", url, bytes.NewBuffer(data)) and the two Header.Set
\* calls: Body is the unread part of the buffer, ContentLength its length at
\* construction.
NewRequest(data, tok) ==
    [method |-> "POST", url |-> URL, Body |-> data, ContentLength |-> Len(data),
     Authorization |-> <<"Bearer ", tok>>, ContentType |-> "application/json"]

NoRequest == NewRequest(<<>>, "")

\* Decode that lets a member of the wrong type pass as the zero value.
DecodeLenient(body) ==
    IF body.json \in {"null", "object"}
    THEN [err |-> FALSE,
          value |-> [Answer |-> IF body.answer.t = "str" THEN body.answer.v ELSE "",
                     Coordinates |-> IF body.coordinates.t = "list" THEN body.coordinates.v ELSE <<>>,
                     Cells |-> IF body.cells.t = "list" THEN body.cells.v ELSE <<>>,
                     Aggregator |-> IF body.aggregator.t = "str" THEN body.aggregator.v ELSE ""]]
    ELSE [err |-> TRUE, value |-> ZeroResponse]

\* json.NewDecoder(resp.Body).Decode(&aiResponse): a member that is missing
\* or of the expected type is accepted, JSON null leaves the struct as it is.
MemberOK(m, t) == m.t \in {Absent, "null", t}
Field(m, t, zero) == IF m.t = t THEN m.v ELSE zero

Decode(body) ==
    IF body.json = "null" THEN [err |-> FALSE, value |-> ZeroResponse]
    ELSE IF body.json # "object" THEN [err |-> TRUE, value |-> ZeroResponse]
    ELSE IF /\ MemberOK(body.answer, "str")
            /\ MemberOK(body.coordinates, "list")
            /\ MemberOK(body.cells, "list")
            /\ MemberOK(body.aggregator, "str")
    THEN [err |-> FALSE,
          value |-> [Answer |-> Field(body.answer, "str", ""),
                     Coordinates |-> Field(body.coordinates, "list", <<>>),
                     Cells |-> Field(body.cells, "list", <<>>),
                     Aggregator |-> Field(body.aggregator, "str", "")]]
    ELSE [err |-> TRUE, value |-> ZeroResponse]

\* json.Unmarshal(body, &result) into map[string]interface{}: err == nil.
UnmarshalOK(body) == body.json \in {"object", "null"}

\* The type assertion replaced by a test for the key alone.
HasEstimatedTimeAnyType(body) ==
    body.json = "object" /\ body.estimated_time.t # Absent

\* result["estimated_time"].(float64): ok.
HasEstimatedTime(body) == body.json = "object" /\ body.estimated_time.t = "num"

\* time.Duration(estimatedTime) * time.Second for estimatedTime >= 0: the
\* conversion to the integer type Duration drops the fraction.
SleepDuration(estimatedTime) ==
    (estimatedTime \div TenthsPerSecond) * TenthsPerSecond

\* ioutil.ReadAll(resp.Body): the unread bytes, and the stream left empty.
ReadAllBody(stream) == [data |-> stream, left |-> EmptyBody]

\* HandleResponse with the 503 test widened to every status but 200.
HandleResponseRetryAny(r) ==
    IF r.status = StatusOK
    THEN LET d == Decode(r.body)
         IN  IF d.err THEN [sleep |-> FALSE, dur |-> 0, response |-> ZeroResponse, err |-> DecodeError]
             ELSE [sleep |-> FALSE, dur |-> 0, response |-> d.value, err |-> NoError]
    ELSE LET first == ReadAllBody(r.body)
         IN  IF UnmarshalOK(first.data) /\ HasEstimatedTime(first.data)
             THEN [sleep |-> TRUE, dur |-> SleepDuration(first.data.estimated_time.v),
                   response |-> ZeroResponse, err |-> NoError]
             ELSE IF r.status = StatusServiceUnavailable
             THEN [sleep |-> FALSE, dur |-> 0, response |-> ZeroResponse,
                   err |-> StatusError(r.status, ReadAllBody(first.left).data)]
             ELSE [sleep |-> TRUE, dur |-> 0, response |-> ZeroResponse, err |-> NoError]

\* The body of the retry loop after Client.Do returned the response r.
HandleResponse(r) ==
    IF r.status = StatusOK
    THEN LET d == Decode(r.body)
         IN  IF d.err THEN [sleep |-> FALSE, dur |-> 0, response |-> ZeroResponse, err |-> DecodeError]
             ELSE [sleep |-> FALSE, dur |-> 0, response |-> d.value, err |-> NoError]
    ELSE IF r.status = StatusServiceUnavailable
    THEN LET first == ReadAllBody(r.body)
         IN  IF UnmarshalOK(first.data) /\ HasEstimatedTime(first.data)
             THEN [sleep |-> TRUE, dur |-> SleepDuration(first.data.estimated_time.v),
                   response |-> ZeroResponse, err |-> NoError]
             ELSE [sleep |-> FALSE, dur |-> 0, response |-> ZeroResponse,
                   err |-> StatusError(r.status, ReadAllBody(first.left).data)]
    ELSE [sleep |-> FALSE, dur |-> 0, response |-> ZeroResponse,
          err |-> StatusError(r.status, ReadAllBody(r.body).data)]

(***************************************************************************)
(* main: the environment it runs in.                                       *)
(***************************************************************************)
\* The protocol the default http.Client negotiates with the endpoint.
Protos == {"HTTP/1.1", "HTTP/2"}

\* HUGGINGFACE_TOKEN
Tokens == {"", "hf_secret"}

\* data-series.csv
GoodFile == <<"a", ",", "b", "\n", "a", ",", "b", "\n", "b", ",", "a", "\n">>
HeaderFile == <<"a", ",", "b">>
EmptyFile == <<>>
CsvFiles == {GoodFile, HeaderFile, EmptyFile}

\* Lines typed on standard input.
Lines ==
    { <<"e", "x", "i", "t">>, <<"E", "X", "I", "T">>, <<"E", "x", "i", "T">>,
      <<>>, <<"e", "x", "i", "t", "s">> }

ToLowerChar(c) ==
    CASE c = "E" -> "e" [] c = "X" -> "x" [] c = "I" -> "i" [] c = "T" -> "t"
      [] OTHER -> c

\* The comparison with "exit" made on the line as typed.
ToLowerIdentity(str) == str

\* strings.ToLower
ToLower(str) == [k \in DOMAIN str |-> ToLowerChar(str[k])]

Exit == <<"e", "x", "i", "t">>

VARIABLES
    proto,      \* protocol of the connection to the endpoint
    plan,       \* behaviour of the endpoint
    token,      \* the credential from the environment
    fileData,   \* contents of the CSV file
    pc,         \* "Startup", "Read", "Attempting", "Waiting", "Returned", "Exited", "Fatal"
    table,      \* main's table
    csvErr,     \* the error CsvToSlice returned ("" for none)
    eof,        \* standard input is exhausted
    linesRead,  \* lines read from standard input
    query,      \* main's query
    calls,      \* ConnectAIModel calls made
    i,          \* loop counter of ConnectAIModel
    req,        \* the request built before the loop
    attempts,   \* Client.Do calls of the current ConnectAIModel call
    sent,       \* requests of the current call that went out on the wire
    srvCount,   \* requests the endpoint has received in the session
    resp,       \* the response the last Client.Do returned
    sleeps,     \* time.Sleep calls of the current ConnectAIModel call
    slept,      \* duration of the last time.Sleep, in tenths of a second
    result,     \* what ConnectAIModel returned: [response, err]
    logged,     \* lines main wrote with log.Printf for failed queries
    printed     \* lines main wrote with fmt.Println for answers

envVars == <<proto, plan, token, fileData>>
mainVars == <<table, csvErr, eof, linesRead, query, calls, logged, printed>>
callVars == <<i, req, attempts, sent, srvCount, resp, sleeps, slept, result>>
vars == <<envVars, pc, mainVars, callVars>>

NoResult == [response |-> ZeroResponse, err |-> NoError]

InitRest ==
    /\ pc = "Startup"
    /\ table = NoTable
    /\ csvErr = ""
    /\ eof = FALSE
    /\ linesRead = 0
    /\ query = <<>>
    /\ calls = 0
    /\ i = 0
    /\ req = NoRequest
    /\ attempts = 0
    /\ sent = <<>>
    /\ srvCount = 0
    /\ resp = NetFail
    /\ sleeps = 0
    /\ slept = 0
    /\ result = NoResult
    /\ logged = 0
    /\ printed = 0

Init ==
    /\ proto \in Protos
    /\ plan \in Plans
    /\ token \in Tokens
    /\ fileData \in CsvFiles
    /\ InitRest

\* main up to the interactive loop: the token, the file, CsvToSlice.
Startup ==
    /\ pc = "Startup"
    /\ IF token = ""
       THEN pc' = "Fatal" /\ UNCHANGED <<table, csvErr>>
       ELSE LET r == CsvToSlice(fileData)
            IN  /\ table' = r.table
                /\ csvErr' = r.err
                /\ pc' = IF r.err # "" THEN "Fatal" ELSE "Read"
    /\ UNCHANGED <<envVars, eof, linesRead, query, calls, logged, printed, callVars>>

\* What scanner.Scan and scanner.Text may deliver next.
ScanResults ==
    {[ok |-> FALSE, text |-> <<>>]}
    \cup (IF ~eof /\ linesRead < MaxLines
          THEN {[ok |-> TRUE, text |-> l] : l \in Lines} ELSE {})

\* One turn of the loop up to the first Client.Do: read a line, leave on
\* "exit", else build the payload and enter ConnectAIModel, which serializes
\* it and builds the request once.
ReadLine ==
    /\ pc = "Read"
    /\ \E in \in ScanResults :
         /\ eof' = ~in.ok
         /\ linesRead' = IF in.ok THEN linesRead + 1 ELSE linesRead
         /\ query' = in.text
         /\ IF ToLower(in.text) = Exit
            THEN /\ pc' = "Exited"
                 /\ UNCHANGED <<calls, callVars>>
            ELSE /\ calls < MaxCalls
                 /\ calls' = calls + 1
                 /\ req' = NewRequest(Marshal([Table |-> table, Query |-> in.text]), token)
                 /\ i' = 0
                 /\ attempts' = 0
                 /\ sent' = <<>>
                 /\ sleeps' = 0
                 /\ result' = NoResult
                 /\ pc' = "Attempting"
                 /\ UNCHANGED <<srvCount, resp, slept>>
    /\ UNCHANGED <<envVars, table, csvErr, logged, printed>>

\* Whether the transport gives up writing the request r: HTTP/1.1 checks the
\* bytes it copied from Body against ContentLength, HTTP/2 sends what it got.
WriteFails(r) == proto = "HTTP/1.1" /\ Len(r.Body) # r.ContentLength

\* LoopBody with `continue` in place of the return on Client.Do's error.
LoopBodyRetryOnError(r) ==
    IF r.fail
    THEN [sleep |-> TRUE, dur |-> 0, response |-> ZeroResponse, err |-> NoError]
    ELSE HandleResponse(r)

\* LoopBody that returns the partly filled aiResponse with a decode error.
LoopBodyPartialResponse(r) ==
    IF r.fail
    THEN [sleep |-> FALSE, dur |-> 0, response |-> ZeroResponse, err |-> TransportError]
    ELSE IF r.status = StatusOK /\ Decode(r.body).err
    THEN [sleep |-> FALSE, dur |-> 0, response |-> DecodeLenient(r.body).value,
          err |-> DecodeError]
    ELSE HandleResponse(r)

\* The loop body from the check of Client.Do's error on: r is what Do
\* returned, a response or an error.
LoopBody(r) ==
    IF r.fail
    THEN [sleep |-> FALSE, dur |-> 0, response |-> ZeroResponse, err |-> TransportError]
    ELSE HandleResponse(r)

\* What Client.Do(req) may return: an error when the transport gives up
\* writing, else whatever the endpoint answers to this request.
DoResults ==
    IF WriteFails(req) THEN {NetFail} ELSE ServerAnswers(plan, srvCount + 1)

\* One pass through the loop body: Client.Do(req), which consumes the
\* request's body, and what follows it up to a return or the call of
\* time.Sleep.
Attempt ==
    /\ pc = "Attempting"
    /\ attempts' = attempts + 1
    /\ req' = [req EXCEPT !.Body = <<>>]
    /\ IF WriteFails(req)
       THEN UNCHANGED <<sent, srvCount>>
       ELSE sent' = Append(sent, req) /\ srvCount' = srvCount + 1
    /\ \E r \in DoResults :
         LET h == LoopBody(r)
         IN  /\ resp' = r
             /\ IF h.sleep
                THEN /\ sleeps' = sleeps + 1
                     /\ slept' = h.dur
                     /\ pc' = "Waiting"
                     /\ UNCHANGED result
                ELSE /\ result' = [response |-> h.response, err |-> h.err]
                     /\ pc' = "Returned"
                     /\ UNCHANGED <<sleeps, slept>>
    /\ UNCHANGED <<envVars, mainVars, i>>

\* Wake with the loop condition i <= maxRetries.
WakeOffByOne ==
    /\ pc = "Waiting"
    /\ i' = i + 1
    /\ IF i + 1 <= maxRetries
       THEN pc' = "Attempting" /\ UNCHANGED result
       ELSE /\ result' = [response |-> ZeroResponse, err |-> MaxRetriesError]
            /\ pc' = "Returned"
    /\ UNCHANGED <<envVars, mainVars, req, attempts, sent, srvCount, resp, sleeps, slept>>

\* time.Sleep returns; continue: i++ and the loop condition, with the return
\* after the loop when it fails.
Wake ==
    /\ pc = "Waiting"
    /\ i' = i + 1
    /\ IF i + 1 < maxRetries
       THEN pc' = "Attempting" /\ UNCHANGED result
       ELSE /\ result' = [response |-> ZeroResponse, err |-> MaxRetriesError]
            /\ pc' = "Returned"
    /\ UNCHANGED <<envVars, mainVars, req, attempts, sent, srvCount, resp, sleeps, slept>>

\* AfterCall with log.Fatalf in place of log.Printf and continue.
AfterCallEndsSession ==
    /\ pc = "Returned"
    /\ IF result.err.kind # "none"
       THEN logged' = logged + 1 /\ pc' = "Fatal" /\ UNCHANGED printed
       ELSE printed' = printed + 4 /\ pc' = "Read" /\ UNCHANGED logged
    /\ UNCHANGED <<envVars, table, csvErr, eof, linesRead, query, calls, callVars>>

\* AfterCall that drops the columns of the table once the answer is shown.
AfterCallClearsTable ==
    /\ pc = "Returned"
    /\ IF result.err.kind # "none"
       THEN logged' = logged + 1 /\ UNCHANGED printed
       ELSE printed' = printed + 4 /\ UNCHANGED logged
    /\ table' = NoTable
    /\ pc' = "Read"
    /\ UNCHANGED <<envVars, csvErr, eof, linesRead, query, calls, callVars>>

\* main after ConnectAIModel returned: log the error or print the answer.
AfterCall ==
    /\ pc = "Returned"
    /\ IF result.err.kind # "none"
       THEN logged' = logged + 1 /\ UNCHANGED printed
       ELSE printed' = printed + 4 /\ UNCHANGED logged
    /\ pc' = "Read"
    /\ UNCHANGED <<envVars, table, csvErr, eof, linesRead, query, calls, callVars>>

Next == Startup \/ ReadLine \/ Attempt \/ Wake \/ AfterCall

Spec == Init /\ [][Next]_vars

\* The session when every Client.Do returns and every time.Sleep ends: a call
\* under way takes its next step.
SpecFair == Spec /\ WF_vars(Attempt) /\ WF_vars(Wake)

(***************************************************************************)
(* CsvToSlice on every short text: main's startup run on each CSV text of  *)
(* at most MaxCsvLen characters.                                           *)
(***************************************************************************)
Alphabet == {"a", "b", Comma, NL, Quote}

Texts == UNION {[1..n -> Alphabet] : n \in 0..MaxCsvLen}

InitCsv ==
    /\ proto = "HTTP/1.1"
    /\ plan = [busy |-> 0, then |-> Resp(StatusOK, GoodAnswer)]
    /\ token = "hf_secret"
    /\ fileData \in Texts
    /\ InitRest

NextCsv == Startup

SpecCsv == InitCsv /\ [][NextCsv]_vars

(***************************************************************************)
(* Properties of ConnectAIModel.                                           *)
(***************************************************************************)
InCall == pc \in {"Attempting", "Waiting", "Returned"}

\* The serialized payload of the current call.
FullPayload == Marshal([Table |-> table, Query |-> query])

\* The last Client.Do of the current call returned a response.
GotResponse == InCall /\ attempts > 0 /\ ~resp.fail

\* The endpoint answers every request with 503 and a numeric estimated_time.
AlwaysBusy == plan.then \in {Busy(t) : t \in EstTimes}

\* C1: when the endpoint answers every request with 503 and a numeric
\* estimated_time, a call that has returned made exactly 10 requests and
\* returned the 'max retries reached' error with the empty Response.
C1_AlwaysBusyTenRequests ==
    (pc = "Returned" /\ AlwaysBusy)
        => /\ attempts = maxRetries
           /\ Len(sent) = maxRetries
           /\ result = [response |-> ZeroResponse, err |-> MaxRetriesError]

\* The endpoint answers its first request with 503 and a numeric
\* estimated_time and its second with 200 and a body that decodes.
BusyOnceThenOK ==
    /\ plan.busy = 1
    /\ plan.then \in {Resp(StatusOK, GoodAnswer), Resp(StatusOK, AnswerOnly)}

\* C2: when the endpoint answers 503 with a numeric estimated_time once and
\* then 200 with a well-formed body, the first call makes exactly two
\* requests and returns the Response decoded from the 200 body, no error.
C2_OneRetryThenSuccess ==
    (pc = "Returned" /\ calls = 1 /\ BusyOnceThenOK)
        => /\ attempts = 2
           /\ Len(sent) = 2
           /\ result = [response |-> Decode(plan.then.body).value, err |-> NoError]

\* A request as every attempt should send it.
FullRequest(r) ==
    /\ r.Body = FullPayload
    /\ r.Authorization = <<"Bearer ", token>>
    /\ r.ContentType = "application/json"

\* C3: every attempt of a call, the first and each retry, hands Client.Do a
\* request with the full serialized payload as body and both headers, and
\* every request that went out carried them.
C3_EveryAttemptSendsFullPayload ==
    /\ pc = "Attempting" => FullRequest(req)
    /\ InCall => \A k \in DOMAIN sent : FullRequest(sent[k])

\* C4: once an attempt has received a status that is neither 200 nor 503,
\* the call has returned a status error with the empty Response, without
\* sleeping after that response and without a further attempt.
C4_OtherStatusFailsAtOnce ==
    (GotResponse /\ resp.status \notin {StatusOK, StatusServiceUnavailable})
        => /\ pc = "Returned"
           /\ result.err.kind = "status"
           /\ result.err.status = resp.status
           /\ result.response = ZeroResponse
           /\ sleeps = attempts - 1

C4_Witness ==
    /\ pc = "Returned"
    /\ GotResponse
    /\ resp.status = 403
    /\ attempts = 1
    /\ result.err.kind = "status"

\* The body carries no usable estimated_time: it is no JSON object, or has no
\* estimated_time member, or that member is not a number.
NoUsableEstimate(b) ==
    \/ b.json # "object"
    \/ b.estimated_time.t = Absent
    \/ b.estimated_time.t # "num"

\* C5: once an attempt has received 503 with a body that carries no usable
\* estimated_time, the call has returned the status error (not 'max
\* retries'), without sleeping after that response and without a further
\* attempt.
C5_BusyWithoutEstimateIsTerminal ==
    (GotResponse /\ resp.status = StatusServiceUnavailable /\ NoUsableEstimate(resp.body))
        => /\ pc = "Returned"
           /\ result.err.kind = "status"
           /\ result.err.status = StatusServiceUnavailable
           /\ result.response = ZeroResponse
           /\ sleeps = attempts - 1

C5_Witness ==
    /\ pc = "Returned"
    /\ GotResponse
    /\ resp = Resp(StatusServiceUnavailable, LoadingStr)
    /\ result.err.kind = "status"
    /\ i + 1 < maxRetries

\* C6: a status error returned by the call carries the status and the body
\* of the response exactly as the endpoint sent them.
C6_StatusErrorCarriesRawBody ==
    (pc = "Returned" /\ result.err.kind = "status")
        => /\ result.err.status = resp.status
           /\ result.err.body = resp.body

\* C7: while the client sleeps after a 503 with numeric estimated_time t, the
\* duration of the sleep is exactly t.
C7_SleepsExactlyEstimatedTime ==
    pc = "Waiting" => slept = resp.body.estimated_time.v

\* C8: once Client.Do has returned an error on any attempt, the call has
\* returned a transport error with the empty Response, without sleeping after
\* it and without a further attempt.
C8_TransportErrorFailsAtOnce ==
    (InCall /\ attempts > 0 /\ resp.fail)
        => /\ pc = "Returned"
           /\ result = [response |-> ZeroResponse, err |-> TransportError]
           /\ sleeps = attempts - 1

C8_Witness ==
    /\ pc = "Returned"
    /\ resp.fail
    /\ attempts > 1
    /\ i + 1 < maxRetries
    /\ result.err = TransportError

\* The body cannot be deserialized into the Response shape: it is no JSON
\* object (nor null), or a member has another type than the field it fills.
Undecodable(b) ==
    \/ b.json \in {"invalid", "array", "empty"}
    \/ /\ b.json = "object"
       /\ \/ b.answer.t \in {"num", "list"}
          \/ b.coordinates.t \in {"num", "str"}
          \/ b.cells.t \in {"num", "str"}
          \/ b.aggregator.t \in {"num", "list"}

\* C9: once an attempt has received 200 with a body that cannot be
\* deserialized, the call has returned a decode error with the empty
\* Response, and no further attempt follows.
C9_UndecodableSuccessFails ==
    (GotResponse /\ resp.status = StatusOK /\ Undecodable(resp.body))
        => /\ pc = "Returned"
           /\ result = [response |-> ZeroResponse, err |-> DecodeError]

C9_Witness ==
    /\ pc = "Returned"
    /\ GotResponse
    /\ resp = Resp(StatusOK, AnswerNumber)
    /\ i + 1 < maxRetries
    /\ result.err = DecodeError

(***************************************************************************)
(* Properties of CsvToSlice.                                               *)
(***************************************************************************)
\* The pieces of s between the occurrences of sep.
RECURSIVE SplitOn(_, _)
SplitOn(s, sep) ==
    LET k == IndexOf(s, sep)
    IN  IF k = 0 THEN <<s>>
        ELSE <<SubSeq(s, 1, k - 1)>> \o SplitOn(Drop(s, k), sep)

\* The text without the newline that ends its last line.
Chomp(t) == IF Len(t) > 0 /\ t[Len(t)] = NL THEN SubSeq(t, 1, Len(t) - 1) ELSE t

\* Well-formed delimited text: a header line and data lines, none of them
\* empty, no quoting.
WellFormed(t) ==
    /\ Len(t) > 0
    /\ IndexOf(t, Quote) = 0
    /\ \A l \in DOMAIN SplitOn(Chomp(t), NL) : Len(SplitOn(Chomp(t), NL)[l]) > 0

\* The rows of a well-formed text, header first.
RowsOf(t) ==
    LET ls == SplitOn(Chomp(t), NL)
    IN  [l \in DOMAIN ls |-> SplitOn(ls[l], Comma)]

IsRectangular(rows) == \A r \in DOMAIN rows : Len(rows[r]) = Len(rows[1])

\* Position c is the last one in the header h that bears its name.
LastOfName(h, c) == \A d \in DOMAIN h : h[d] = h[c] => d <= c

\* C10: for well-formed text with header H and R data rows CsvToSlice returns
\* a table whose keys are the names in H and whose columns have at most R
\* values; for rectangular text every column has R values, those of its
\* position in the data rows, in row order.
C10_TableShape ==
    (pc # "Startup" /\ WellFormed(fileData))
        => LET rows == RowsOf(fileData)
               H == rows[1]
               R == Len(rows) - 1
           IN  /\ csvErr = ""
               /\ DOMAIN table = {H[c] : c \in DOMAIN H}
               /\ \A n \in DOMAIN table : Len(table[n]) <= R
               /\ IsRectangular(rows)
                    => \A c \in DOMAIN H :
                         LastOfName(H, c) => table[H[c]] = [r \in 1..R |-> rows[r + 1][c]]

\* The text holds no record: it is empty or made of empty lines only.
NoRows(t) == \A k \in DOMAIN t : t[k] = NL

\* The number of quote characters in t.
RECURSIVE CountQuotes(_)
CountQuotes(t) ==
    IF Len(t) = 0 THEN 0
    ELSE (IF Head(t) = Quote THEN 1 ELSE 0) + CountQuotes(Tail(t))

\* The tokenizer reports malformed quoting.
QuotingError(t) == ReadAll(t).err \in {"ErrQuote", "ErrBareQuote"}

\* C11: on the empty string and on any text that parses to zero rows
\* CsvToSlice fails with "no data found" and returns no table; it fails with
\* the tokenizer's error and no table when the tokenizer reports malformed
\* quoting, and a text with an odd number of quote characters never yields a
\* table.
C11_NoRowsOrBadQuotingFails ==
    pc # "Startup"
        => /\ NoRows(fileData)
                => (pc = "Fatal" /\ csvErr = "no data found" /\ table = NoTable)
           /\ QuotingError(fileData)
                => (pc = "Fatal" /\ csvErr = ReadAll(fileData).err /\ table = NoTable)
           /\ CountQuotes(fileData) % 2 = 1
                => (pc = "Fatal" /\ csvErr # "" /\ table = NoTable)

C11_Witness ==
    /\ pc = "Fatal"
    /\ fileData = <<NL, NL>>
    /\ csvErr = "no data found"
    /\ table = NoTable

\* Some data row of rows has fewer fields than the header and none has more.
HasShortRow(rows) ==
    /\ \E r \in DOMAIN rows : Len(rows[r]) < Len(rows[1])
    /\ \A r \in DOMAIN rows : Len(rows[r]) <= Len(rows[1])

\* The fields found at position c in the data rows that are long enough.
RECURSIVE FieldsAt(_, _, _)
FieldsAt(rows, r, c) ==
    IF r > Len(rows) THEN <<>>
    ELSE (IF c <= Len(rows[r]) THEN <<rows[r][c]>> ELSE <<>>) \o FieldsAt(rows, r + 1, c)

\* C12: when a data row has fewer fields than the header, CsvToSlice does not
\* fail: every column holds the fields that exist at its position, so a
\* column beyond the short row's length is shorter than the others.
C12_ShortRowsAreTolerated ==
    (pc # "Startup" /\ WellFormed(fileData) /\ HasShortRow(RowsOf(fileData)))
        => LET rows == RowsOf(fileData)
               H == rows[1]
           IN  /\ pc = "Read"
               /\ csvErr = ""
               /\ DOMAIN table = {H[c] : c \in DOMAIN H}
               /\ \A c \in DOMAIN H :
                    LastOfName(H, c) => table[H[c]] = FieldsAt(rows, 2, c)

\* The header the tokenizer found in t.
HeaderOf(t) == Head(ReadAll(t).records)

\* The data rows the tokenizer found in t.
DataOf(t) == Tail(ReadAll(t).records)

\* C13: when the header bears a name at several positions, the table has one
\* entry for the name and its values are those of the last position with that
\* name, in row order.
C13_LastDuplicateColumnWins ==
    (pc = "Read" /\ csvErr = "")
        => LET H == HeaderOf(fileData)
               D == DataOf(fileData)
           IN  /\ Cardinality(DOMAIN table) = Cardinality({H[c] : c \in DOMAIN H})
               /\ \A c \in DOMAIN H :
                    LastOfName(H, c) => table[H[c]] = [r \in DOMAIN D |-> D[r][c]]

C13_Witness ==
    /\ pc = "Read"
    /\ fileData = <<Comma, NL, Comma, "a">>
    /\ DOMAIN table = {<<>>}
    /\ table[<<>>] = << <<"a">> >>

(***************************************************************************)
(* Properties of the interactive loop.                                     *)
(***************************************************************************)
\* C14: when ConnectAIModel has returned an error, main's next step logs one
\* line, prints no response line and is back at reading the next input line;
\* the session does not end.
C14_FailedQueryKeepsSession ==
    [][(pc = "Returned" /\ result.err.kind # "none")
          => /\ pc' = "Read"
             /\ logged' = logged + 1
             /\ printed' = printed
             /\ calls' = calls]_vars

C14_Witness ==
    /\ pc = "Attempting"
    /\ calls = 2
    /\ logged = 1
    /\ printed = 0

\* C15: after startup the table is the one CsvToSlice produced, whatever
\* queries went before, and the request a call builds carries that table.
C15_TableNeverModified ==
    pc \in {"Read", "Attempting", "Waiting", "Returned", "Exited"}
        => /\ table = CsvToSlice(fileData).table
           /\ (pc = "Attempting" /\ attempts = 0)
                => req.Body = Marshal([Table |-> CsvToSlice(fileData).table,
                                       Query |-> query])

C15_Witness ==
    /\ pc = "Attempting"
    /\ attempts = 0
    /\ calls = 2
    /\ printed = 4
    /\ fileData = GoodFile
    /\ DOMAIN table = {<<"a">>, <<"b">>}
    /\ req.Body[1].val = table

\* The line is "exit" in some letter case.
IsExitAnyCase(l) ==
    /\ Len(l) = 4
    /\ l[1] \in {"e", "E"}
    /\ l[2] \in {"x", "X"}
    /\ l[3] \in {"i", "I"}
    /\ l[4] \in {"t", "T"}

\* C16: a step that reads a line equal to "exit" in any letter case ends the
\* loop and starts no call; a step that reads any other line starts exactly
\* one ConnectAIModel call, with that line as the query; no other step of the
\* session starts a call.
C16_ExitAnyCaseEndsLoop ==
    [][/\ (pc = "Read" /\ linesRead' = linesRead + 1)
            => IF IsExitAnyCase(query')
               THEN pc' = "Exited" /\ calls' = calls /\ UNCHANGED callVars
               ELSE /\ pc' = "Attempting"
                    /\ calls' = calls + 1
                    /\ attempts' = 0
                    /\ req'.Body = Marshal([Table |-> table, Query |-> query'])
       /\ pc # "Read" => calls' = calls]_vars

C16_Witness ==
    /\ pc = "Exited"
    /\ query = <<"E", "x", "i", "T">>
    /\ linesRead = 2
    /\ calls = 1

\* C17: a call makes at least 1 and at most 10 attempts, whatever the
\* endpoint answers, and its loop counter counts the attempts of this call
\* alone: it is 0 when the call begins, whatever earlier calls used up.
C17_AttemptsPerCallBounded ==
    InCall
        => /\ attempts <= maxRetries
           /\ Len(sent) <= attempts
           /\ pc = "Returned" => attempts >= 1
           /\ pc = "Attempting" => (i = attempts /\ i < maxRetries)

C17_Witness ==
    /\ pc = "Returned"
    /\ calls = 2
    /\ attempts = maxRetries
    /\ srvCount = 2 * maxRetries
    /\ result.err = MaxRetriesError

\* C18: the step that ends a wait leads to a further attempt, never to the
\* return of the call.
C18_WaitLeadsToAttempt ==
    [][pc = "Waiting" => pc' = "Attempting"]_vars

\* C19: a call that has returned has either succeeded (no error) or failed
\* (an error and the empty Response); it has succeeded only if its last
\* Client.Do received 200 with a body that deserializes, and then the Response
\* is the decoding of that body; and when every Client.Do returns and every
\* sleep ends, a call under way does return.
C19_CallEndsSucceededOrFailed ==
    /\ [](pc = "Returned"
            => /\ attempts >= 1
               /\ result.err.kind # "none" => result.response = ZeroResponse
               /\ result.err.kind = "none"
                    => /\ ~resp.fail
                       /\ resp.status = StatusOK
                       /\ ~Undecodable(resp.body)
                       /\ result.response = Decode(resp.body).value)
    /\ (pc \in {"Attempting", "Waiting"}) ~> (pc = "Returned")

C19_Witness ==
    /\ pc = "Returned"
    /\ result.err = NoError
    /\ resp = Resp(StatusOK, GoodAnswer)
    /\ result.response.Answer = "42"
    /\ result.response.Cells = <<"42">>

\* C20: the loop starts a call only for a line it has read: once standard
\* input is exhausted no call is under way.
C20_NoCallAfterEndOfInput ==
    eof => ~InCall

====
